---- MODULE Spec2Model ----
(***************************************************************************)
(* Air-quality cleaning pipeline (src/src/data/cleaners.py, DataCleaner)   *)
(* and collector (src/src/data/collectors.py, AirQualityCollector),        *)
(* run together by src/scripts/collect_data.py (main).                     *)
(*                                                                         *)
(* A table (pandas DataFrame) is a record                                  *)
(*     [columns : set of column names,                                     *)
(*      index   : sequence of row labels,                                  *)
(*      rows    : sequence of rows, each a function columns -> cell]       *)
(* A cell is <<>> (NaN / None) or <<v>> (the value v).                     *)
(* Tables live in a heap keyed by the place that allocated them, so that   *)
(* in-place mutation and aliasing of DataFrame objects are visible.        *)
(***************************************************************************)
EXTENDS Integers, Sequences, FiniteSets, TLC

VARIABLES heap,      \* allocated DataFrame objects: reference -> table
          df_clean,  \* clean_data's local df_clean: a reference, or "none"
          pc,        \* position of the running call
          stages,    \* the stages that have started, in order (history)
          result,    \* reference of the returned table, or "none"
          error,     \* the exception raised out of the call, or "none"
          input0,    \* the caller's table as it was when the call was made (history)
          method,    \* the method argument of detect_outliers
          ret,       \* the value a call returned when it is no table
          raw_dir,   \* the files of the raw data directory, in glob order
          api_calls_today, \* AirQualityCollector.api_calls_today
          max_retries,     \* the configured retry_attempts
          city_key,        \* the city_key argument of fetch_city_data
          attempt,         \* fetch_city_data's loop variable
          events,          \* what the collector has done so far (history)
          uncounted,       \* requests issued but not counted in api_calls_today (history)
          cities_todo,     \* fetch_all_cities: the cities its loop has yet to take
          all_data,        \* fetch_all_cities: the records collected so far
          visited,         \* the cities fetch_all_cities has called fetch_city_data for (history)
          processed_dir,   \* the files of the processed data directory
          exit_code        \* what collect_data.main returned, -1 while it has not

\* fetch_all_cities' part of the state
batch == <<cities_todo, all_data, visited>>

\* the collector's part of the state
collector == <<api_calls_today, max_retries, city_key, attempt, events, uncounted, batch>>

\* the workflow's own part of the state
workflow == <<processed_dir, exit_code>>

vars == <<heap, df_clean, pc, stages, result, error, input0, method, ret, raw_dir,
          api_calls_today, max_retries, city_key, attempt, events, uncounted,
          cities_todo, all_data, visited, processed_dir, exit_code>>

\* the state the stages of clean_data never touch
elsewhere == <<method, ret, raw_dir, collector, workflow>>

\* a collector just constructed, with no fetch under way
collector_idle ==
    /\ api_calls_today = 0
    /\ max_retries = 3
    /\ city_key = "none"
    /\ attempt = 0
    /\ events = <<>>
    /\ uncounted = 0
    /\ cities_todo = <<>>
    /\ all_data = <<>>
    /\ visited = <<>>

\* no workflow run under way, nothing processed yet
workflow_idle ==
    /\ processed_dir = <<>>
    /\ exit_code = -1

----------------------------------------------------------------------------
(* Cells *)

Null == <<>>

V(x) == <<x>>

isnull(c) == c = Null

notnull(c) == c # Null

\* pandas comparison of a cell with a number: False on NaN
lt(c, n) == notnull(c) /\ c[1] < n

gt(c, n) == notnull(c) /\ c[1] > n

----------------------------------------------------------------------------
(* Columns *)

\* DataCleaner.__init__: self.required_columns
required_columns ==
    {"timestamp", "city_key", "city_name", "country",
     "aqi", "pm2_5", "pm10", "no2", "o3", "co", "so2"}

\* handle_missing_values: pollutant_cols
pollutant_cols == {"pm2_5", "pm10", "no2", "o3", "co", "so2", "nh3", "no"}

\* validate_data_ranges: ranges (the defaults of quality_settings.get)
ranges ==
    [c \in {"pm2_5", "pm10", "no2", "o3", "co", "so2", "aqi"} |->
        CASE c = "pm2_5" -> <<0, 500>>
          [] c = "pm10"  -> <<0, 1000>>
          [] c = "no2"   -> <<0, 400>>
          [] c = "o3"    -> <<0, 500>>
          [] c = "co"    -> <<0, 50000>>
          [] c = "so2"   -> <<0, 1000>>
          [] c = "aqi"   -> <<1, 5>>]

\* the order in which validate_data_ranges walks the dict
range_columns == <<"pm2_5", "pm10", "no2", "o3", "co", "so2", "aqi">>

\* add_derived_features: the columns it assigns
derived_columns ==
    {"hour", "day_of_week", "month", "year", "is_weekend", "aqi_category", "pm_total"}

----------------------------------------------------------------------------
(* Tables *)

len(t) == Len(t.rows)

Positions(t) == 1 .. len(t)

\* the positions of a set of positions, ascending
RECURSIVE Ascending(_)
Ascending(S) ==
    IF S = {} THEN <<>>
    ELSE LET m == CHOOSE x \in S : \A y \in S : x <= y
         IN <<m>> \o Ascending(S \ {m})

\* df.iloc[order]: the rows at the positions of order, in that order
take(t, order) ==
    [columns |-> t.columns,
     index   |-> [i \in 1 .. Len(order) |-> t.index[order[i]]],
     rows    |-> [i \in 1 .. Len(order) |-> t.rows[order[i]]]]

\* df.copy(): a new object with the same labels and values
copy(t) == [columns |-> t.columns, index |-> t.index, rows |-> t.rows]

----------------------------------------------------------------------------
(* validate_schema *)

\* set(self.required_columns) - set(df.columns)
missing_cols(t) == required_columns \ t.columns

\* faulty variant: the emptiness check is left out
schema_errors_columns_only(t) ==
    IF missing_cols(t) # {}
    THEN <<[msg |-> "Missing required columns", cols |-> missing_cols(t)]>>
    ELSE <<>>

\* faulty variant: the checks stop at the first error
schema_errors_short_circuit(t) ==
    IF missing_cols(t) # {}
    THEN <<[msg |-> "Missing required columns", cols |-> missing_cols(t)]>>
    ELSE IF len(t) = 0
    THEN <<[msg |-> "DataFrame is empty", cols |-> {}]>>
    ELSE <<>>

\* the error list: one entry per failed check, in the order of the checks
schema_errors(t) ==
    (IF missing_cols(t) # {}
     THEN <<[msg |-> "Missing required columns", cols |-> missing_cols(t)]>>
     ELSE <<>>)
    \o
    (IF len(t) = 0
     THEN <<[msg |-> "DataFrame is empty", cols |-> {}]>>
     ELSE <<>>)

\* (is_valid, errors)
validate_schema(t) == <<Len(schema_errors(t)) = 0, schema_errors(t)>>

----------------------------------------------------------------------------
(* validate_data_ranges *)

\* faulty variant: only the lower bound is tested
out_of_range_low_only(c, min_val, max_val) == lt(c, min_val)

\* faulty variant: the bounds themselves count as out of range
out_of_range_inclusive(c, min_val, max_val) ==
    notnull(c) /\ (c[1] <= min_val \/ c[1] >= max_val)

\* (df[column] < min_val) | (df[column] > max_val), for one cell
out_of_range(c, min_val, max_val) == lt(c, min_val) \/ gt(c, max_val)

\* the body of the loop for one column
mask_column(t, column) ==
    IF column \in t.columns
    THEN LET min_val == ranges[column][1]
             max_val == ranges[column][2]
             count   == Cardinality({i \in Positions(t) :
                            out_of_range(t.rows[i][column], min_val, max_val)})
         IN IF count > 0
            THEN [t EXCEPT !.rows =
                    [i \in Positions(t) |->
                        IF out_of_range(t.rows[i][column], min_val, max_val)
                        THEN [t.rows[i] EXCEPT ![column] = Null]
                        ELSE t.rows[i]]]
            ELSE t
    ELSE t

RECURSIVE mask_columns(_, _)
mask_columns(t, columns) ==
    IF columns = <<>> THEN t
    ELSE mask_columns(mask_column(t, Head(columns)), Tail(columns))

\* the table after the in-place masking (the same object is returned)
validate_data_ranges(t) == mask_columns(t, range_columns)

\* a JSON value that is text where a number is expected ('aqi': 'high'),
\* held as a code that no reading has
text_value == -1

\* df[column] < min_val raises TypeError for a bounded column that holds text
ranges_raises(t) ==
    \E c \in DOMAIN ranges \cap t.columns :
        \E i \in Positions(t) : t.rows[i][c] = V(text_value)

----------------------------------------------------------------------------
(* handle_missing_values *)

\* fillna(method='ffill', limit=...): the limit passed
ffill_limit == 3

\* the sort key of a timestamp cell (ISO strings order chronologically)
sort_key(c) == c[1].t

\* df.sort_values('timestamp') uses the default kind='quicksort', which is
\* not stable: every order of the positions that is ascending in timestamp
\* is a possible outcome (rows with equal timestamps in any order).
RECURSIVE sorted_orders(_, _)
sorted_orders(t, S) ==
    IF S = {} THEN {<<>>}
    ELSE UNION {
           {<<i>> \o rest : rest \in sorted_orders(t, S \ {i})} :
           i \in {j \in S : \A k \in S :
                     sort_key(t.rows[j]["timestamp"]) <= sort_key(t.rows[k]["timestamp"])}}

sort_values(t) == {take(t, order) : order \in sorted_orders(t, Positions(t))}

\* pad one column: s is the sequence of cells, i the next position, last the
\* last valid cell seen (Null if none), count the cells filled since then
RECURSIVE pad(_, _, _, _, _)
pad(s, i, last, count, limit) ==
    IF i > Len(s) THEN s
    ELSE IF notnull(s[i])
         THEN pad(s, i + 1, s[i], 0, limit)
         ELSE IF notnull(last) /\ count < limit
              THEN pad([s EXCEPT ![i] = last], i + 1, last, count + 1, limit)
              ELSE pad(s, i + 1, last, count + 1, limit)

\* faulty variant: the limit is not passed on
ffill_unlimited(s, limit) == pad(s, 1, Null, 0, Len(s))

ffill(s, limit) == pad(s, 1, Null, 0, limit)

\* faulty variant: the fill is not restricted to the city's rows
city_mask_all(t, city) == Positions(t)

\* df['city_key'] == city (False where city_key is NaN)
city_mask(t, city) ==
    {i \in Positions(t) : notnull(t.rows[i]["city_key"]) /\ t.rows[i]["city_key"] = city}

\* df.loc[city_mask, pollutant_cols] = df.loc[city_mask, pollutant_cols].fillna(...)
fill_city(t, city) ==
    LET mask   == city_mask(t, city)
        sel    == Ascending(mask)
        filled == [c \in pollutant_cols |->
                      ffill([k \in 1 .. Len(sel) |-> t.rows[sel[k]][c]], ffill_limit)]
        place  == [i \in mask |-> CHOOSE k \in 1 .. Len(sel) : sel[k] = i]
    IN [t EXCEPT !.rows =
          [i \in Positions(t) |->
              IF i \in mask
              THEN [c \in t.columns |->
                       IF c \in pollutant_cols THEN filled[c][place[i]]
                       ELSE t.rows[i][c]]
              ELSE t.rows[i]]]

\* df['city_key'].unique(), in order of first appearance
RECURSIVE unique(_)
unique(s) ==
    IF s = <<>> THEN <<>>
    ELSE LET front == unique(SubSeq(s, 1, Len(s) - 1))
             x == s[Len(s)]
         IN IF \E k \in 1 .. Len(front) : front[k] = x THEN front ELSE Append(front, x)

RECURSIVE fill_cities(_, _)
fill_cities(t, cities) ==
    IF cities = <<>> THEN t
    ELSE fill_cities(fill_city(t, Head(cities)), Tail(cities))

\* the loop over the cities, on the sorted table
ffill_by_city(t) ==
    fill_cities(t, unique([i \in Positions(t) |-> t.rows[i]["city_key"]]))

\* faulty variant: the result of dropna is thrown away
dropna_discarded(t, column) == t

\* faulty variant: dropna() without subset: a row with any NaN is dropped
dropna_any(t, column) ==
    take(t, Ascending({i \in Positions(t) : \A c \in t.columns : notnull(t.rows[i][c])}))

\* df.dropna(subset=[column]): a new table without the rows whose cell is NaN
dropna(t, column) ==
    take(t, Ascending({i \in Positions(t) : notnull(t.rows[i][column])}))

\* handle_missing_values raises KeyError when a label it selects is absent:
\* the sort column, the city column, any of pollutant_cols inside the loop
\* (reached only if there is a row), or the dropna column
missing_raises(t) ==
    \/ "timestamp" \notin t.columns
    \/ "city_key" \notin t.columns
    \/ (len(t) > 0 /\ ~(pollutant_cols \subseteq t.columns))
    \/ "aqi" \notin t.columns

----------------------------------------------------------------------------
(* detect_outliers *)

\* the columns detect_outliers looks at (its own pollutant_cols: no nh3, no no)
outlier_cols == <<"pm2_5", "pm10", "no2", "o3", "co", "so2">>

\* the non-null cells of a column, as values in row order (quantile skips NaN)
RECURSIVE valid_values(_, _, _)
valid_values(t, col, i) ==
    IF i > len(t) THEN <<>>
    ELSE (IF notnull(t.rows[i][col]) THEN <<t.rows[i][col][1]>> ELSE <<>>)
         \o valid_values(t, col, i + 1)

\* the k-th smallest of the values s, k in 1 .. Len(s)
order_stat(s, k) ==
    CHOOSE v \in {s[i] : i \in DOMAIN s} :
        /\ Cardinality({i \in DOMAIN s : s[i] < v}) < k
        /\ k <= Cardinality({i \in DOMAIN s : s[i] <= v})

\* Series.quantile(p / 4) with the default linear interpolation, times 4:
\* the rank is (p / 4) * (n - 1) over the ascending non-null values, and the
\* result lies between the two neighbouring values; NaN if there is no value.
\* (The values are integers, so quarters and eighths are exact in floats.)
quantile(t, col, p) ==
    LET s   == valid_values(t, col, 1)
        pos == p * (Len(s) - 1)
        lo  == order_stat(s, (pos \div 4) + 1)
    IN IF Len(s) = 0 THEN Null
       ELSE IF pos % 4 = 0 THEN V(4 * lo)
       ELSE V(4 * lo + (pos % 4) * (order_stat(s, (pos \div 4) + 2) - lo))

\* lower_bound = Q1 - 1.5 * IQR and upper_bound = Q3 + 1.5 * IQR, times 8
\* (Q1 and Q3 come times 4); NaN if the quartiles are NaN
lower_bound(Q1, Q3) == IF isnull(Q1) THEN Null ELSE V(2 * Q1[1] - 3 * (Q3[1] - Q1[1]))

upper_bound(Q1, Q3) == IF isnull(Q3) THEN Null ELSE V(2 * Q3[1] + 3 * (Q3[1] - Q1[1]))

\* (df[col] < lower_bound) | (df[col] > upper_bound) at one cell: False
\* where the cell or the bound is NaN
is_outlier(c, lower, upper) ==
    /\ notnull(c)
    /\ notnull(lower)
    /\ (8 * c[1] < lower[1] \/ 8 * c[1] > upper[1])

\* the rows (positions) whose cell in col is an outlier
outlier_rows(t, col) ==
    LET Q1 == quantile(t, col, 1)
        Q3 == quantile(t, col, 3)
    IN {i \in Positions(t) :
          is_outlier(t.rows[i][col], lower_bound(Q1, Q3), upper_bound(Q1, Q3))}

\* the number logged for a column
outliers(t, col) == Cardinality(outlier_rows(t, col))

\* faulty variant: the masking line is active, the outliers are set to NaN
iqr_column_masking(t, col) ==
    IF col \in t.columns /\ outliers(t, col) > 0
    THEN [t EXCEPT !.rows =
            [i \in Positions(t) |->
                IF i \in outlier_rows(t, col)
                THEN [t.rows[i] EXCEPT ![col] = Null] ELSE t.rows[i]]]
    ELSE t

\* the loop body for one column: the outliers are counted and logged, the
\* line that would mask them is commented out
iqr_column(t, col) ==
    IF col \in t.columns /\ outliers(t, col) > 0 THEN t ELSE t

RECURSIVE iqr_columns(_, _)
iqr_columns(t, cols) ==
    IF cols = <<>> THEN t
    ELSE iqr_columns(iqr_column(t, Head(cols)), Tail(cols))

\* the table the call leaves in the object passed (the same object is
\* returned); a method other than 'iqr' falls through to the return
detect_outliers(t, m) ==
    IF m = "iqr" THEN iqr_columns(t, outlier_cols) ELSE t

----------------------------------------------------------------------------
(* add_derived_features *)

\* A timestamp is a number of hours counted from Monday 2024-01-01 00:00,
\* held as text in a raw table and as a datetime after pd.to_datetime.
ts_str(n) == [dtype |-> "str", t |-> n]

to_datetime(x) == [dtype |-> "datetime64", t |-> x.t]

dt_hour(x) == x.t % 24

dt_dayofweek(x) == (x.t \div 24) % 7

\* valid for the timestamps of January 2024, which the inputs stay within
dt_month(x) == 1 + ((x.t \div 24) \div 31)

dt_year(x) == 2024

\* faulty variant: a value that is no key gets the nearest label
aqi_category_clamped(c) ==
    IF isnull(c) THEN Null
    ELSE CASE c[1] <= 1 -> V("Good")
           [] c[1] = 2  -> V("Fair")
           [] c[1] = 3  -> V("Moderate")
           [] c[1] = 4  -> V("Poor")
           [] OTHER     -> V("Very Poor")

\* aqi_categories and Series.map: a value that is no key maps to NaN
aqi_category(c) ==
    IF isnull(c) THEN Null
    ELSE CASE c[1] = 1 -> V("Good")
           [] c[1] = 2 -> V("Fair")
           [] c[1] = 3 -> V("Moderate")
           [] c[1] = 4 -> V("Poor")
           [] c[1] = 5 -> V("Very Poor")
           [] OTHER    -> Null

\* faulty variant: a missing operand counts as 0
pm_total_skipna(a, b) ==
    IF isnull(a) /\ isnull(b) THEN Null
    ELSE V((IF isnull(a) THEN 0 ELSE a[1]) + (IF isnull(b) THEN 0 ELSE b[1]))

\* df['pm2_5'] + df['pm10']: NaN if either operand is NaN
pm_total(a, b) == IF isnull(a) \/ isnull(b) THEN Null ELSE V(a[1] + b[1])

\* one row after all the column assignments
derive_row(row, columns) ==
    LET ts  == IF isnull(row["timestamp"]) THEN Null
               ELSE V(to_datetime(row["timestamp"][1]))
        dow == IF isnull(ts) THEN Null ELSE V(dt_dayofweek(ts[1]))
    IN [c \in columns \cup derived_columns |->
          CASE c = "timestamp"    -> ts
            [] c = "hour"         -> IF isnull(ts) THEN Null ELSE V(dt_hour(ts[1]))
            [] c = "day_of_week"  -> dow
            [] c = "month"        -> IF isnull(ts) THEN Null ELSE V(dt_month(ts[1]))
            [] c = "year"         -> IF isnull(ts) THEN Null ELSE V(dt_year(ts[1]))
            [] c = "is_weekend"   -> V(IF notnull(dow) /\ dow[1] \in {5, 6} THEN 1 ELSE 0)
            [] c = "aqi_category" -> aqi_category(row["aqi"])
            [] c = "pm_total"     -> pm_total(row["pm2_5"], row["pm10"])
            [] OTHER              -> row[c]]

\* the table after the in-place assignments (the same object is returned)
add_derived_features(t) ==
    [columns |-> t.columns \cup derived_columns,
     index   |-> t.index,
     rows    |-> [i \in Positions(t) |-> derive_row(t.rows[i], t.columns)]]

\* the columns the assignments read; a KeyError is raised at the first
\* assignment that reads an absent one
features_raises(t) == ~({"timestamp", "aqi", "pm2_5", "pm10"} \subseteq t.columns)

\* the columns already assigned when that KeyError is raised: none without
\* timestamp (line 320), the time columns without aqi (line 339), these and
\* aqi_category without pm2_5 or pm10 (line 342)
assigned_before_raise(t) ==
    IF "timestamp" \notin t.columns THEN {}
    ELSE IF "aqi" \notin t.columns
    THEN {"hour", "day_of_week", "month", "year", "is_weekend"}
    ELSE {"hour", "day_of_week", "month", "year", "is_weekend", "aqi_category"}

\* the table the assignments made before the KeyError leave behind
features_partial(t) ==
    IF "timestamp" \notin t.columns THEN t
    ELSE [columns |-> t.columns \cup assigned_before_raise(t),
          index   |-> t.index,
          rows    |-> [i \in Positions(t) |->
                         [c \in t.columns \cup assigned_before_raise(t) |->
                             derive_row(t.rows[i], t.columns)[c]]]]

----------------------------------------------------------------------------
(* generate_quality_report *)

\* df[col].isnull().sum()
null_count(t, col) == Cardinality({i \in Positions(t) : isnull(t.rows[i][col])})

\* n / d rounded to an integer, halves to the even neighbour (round(2) on a
\* value counted in hundredths)
round_div(n, d) ==
    LET q == n \div d
        r == n % d
    IN IF 2 * r < d THEN q
       ELSE IF 2 * r > d THEN q + 1
       ELSE IF q % 2 = 0 THEN q ELSE q + 1

\* (k / n * 100).round(2), in hundredths of a percent. For n = 0 the count k
\* is 0 as well and pandas divides 0 / 0 to NaN without raising
percent(k, n) == IF n = 0 THEN Null ELSE V(round_div(k * 10000, n))

\* a sum of cells, NaN cells skipped (Series.mean skips them)
RECURSIVE sum_valid(_, _)
sum_valid(f, S) ==
    IF S = {} THEN 0
    ELSE LET c == CHOOSE x \in S : TRUE
         IN (IF isnull(f[c]) THEN 0 ELSE f[c][1]) + sum_valid(f, S \ {c})

\* Series.mean(): NaN when no valid value is left, else the exact quotient
\* sum / columns
mean(f) ==
    LET valid == {c \in DOMAIN f : notnull(f[c])}
    IN IF valid = {} THEN Null
       ELSE V([sum |-> sum_valid(f, valid), columns |-> Cardinality(valid)])

\* df[col].min() / .max() over the non-null timestamps; NaN (or None, when
\* the column is absent) if there is none
date_bound(t, least) ==
    LET S == IF "timestamp" \in t.columns
             THEN {i \in Positions(t) : notnull(t.rows[i]["timestamp"])} ELSE {}
    IN IF S = {} THEN Null
       ELSE t.rows[CHOOSE i \in S : \A j \in S :
                     IF least
                     THEN sort_key(t.rows[i]["timestamp"]) <= sort_key(t.rows[j]["timestamp"])
                     ELSE sort_key(t.rows[i]["timestamp"]) >= sort_key(t.rows[j]["timestamp"])
                  ]["timestamp"]

\* df['city_key'].nunique() if 'city_key' in df.columns else 0
nunique_cities(t) ==
    IF "city_key" \in t.columns
    THEN Cardinality({t.rows[i]["city_key"] : i \in Positions(t)} \ {Null})
    ELSE 0

\* the columns df.describe() summarises: the numeric ones, or every column
\* when none is numeric
described(t) ==
    IF t.columns \cap (pollutant_cols \cup {"aqi"}) # {}
    THEN t.columns \cap (pollutant_cols \cup {"aqi"})
    ELSE t.columns

\* df.describe().to_dict() if len(df) > 0 else {}: of the summary only the
\* count of each described column is kept
numeric_summary(t) ==
    [c \in (IF len(t) > 0 THEN described(t) ELSE {}) |-> len(t) - null_count(t, c)]

\* the report dictionary
generate_quality_report(t) ==
    [total_records      |-> len(t),
     total_columns      |-> Cardinality(t.columns),
     date_range         |-> [start |-> date_bound(t, TRUE), end |-> date_bound(t, FALSE)],
     cities             |-> nunique_cities(t),
     missing_values     |-> [c \in t.columns |-> null_count(t, c)],
     missing_percentage |-> [c \in t.columns |-> percent(null_count(t, c), len(t))],
     completeness       |-> mean([c \in t.columns |->
                                    percent(len(t) - null_count(t, c), len(t))]),
     numeric_summary    |-> numeric_summary(t)]

----------------------------------------------------------------------------
(* Objects: the heap of DataFrames *)

\* the caller's table, the argument df of the call
Arg == "df"

\* a write to the object r (in-place mutation)
store(h, r, t) == [x \in DOMAIN h \cup {r} |-> IF x = r THEN t ELSE h[x]]

\* faulty variant: df_clean = df: no copy is made
copy_ref_alias(r) == r

\* the reference df.copy() returns: a new object
copy_ref(r) == "df.copy()"

\* the references sort_values and dropna return: new objects
sort_ref(r) == "df.sort_values()"

dropna_ref(r) == "df.dropna()"

----------------------------------------------------------------------------
(* The stages as operations on the heap *)

\* handle_missing_values on the object r: the possible outcomes, each with
\* the heap it leaves, the reference it returns and the exception it raises
handle_missing_values(h, r) ==
    IF missing_raises(h[r])
    THEN {[heap |-> h, ret |-> "none", error |-> "KeyError"]}
    ELSE {LET filled == ffill_by_city(sorted)
          IN [heap  |-> store(store(h, sort_ref(r), filled),
                              dropna_ref(r), dropna(filled, "aqi")),
              ret   |-> dropna_ref(r),
              error |-> "none"] : sorted \in sort_values(h[r])}

----------------------------------------------------------------------------
(* Input tables *)

Cities == {"bangkok", "new_york"}

\* the columns of a table written by the collector (parse_api_response)
collector_columns == required_columns \cup {"nh3", "no", "fetch_timestamp"}

\* one raw row over the collector's columns
raw_row(ts, city, aqi, pm2_5, pm10, other) ==
    [c \in collector_columns |->
        CASE c = "timestamp"       -> V(ts_str(ts))
          [] c = "fetch_timestamp" -> V(ts_str(ts))
          [] c = "city_key"        -> V(city)
          [] c = "city_name"       -> V(city)
          [] c = "country"         -> V(IF city = "bangkok" THEN "TH" ELSE "US")
          [] c = "aqi"             -> aqi
          [] c = "pm2_5"           -> pm2_5
          [] c = "pm10"            -> pm10
          [] OTHER                 -> other]

\* a table with the given columns, rows labelled 0, 1, ... (a RangeIndex)
table(columns, rows) ==
    [columns |-> columns,
     index   |-> [i \in 1 .. Len(rows) |-> i - 1],
     rows    |-> [i \in 1 .. Len(rows) |-> [c \in columns |-> rows[i][c]]]]

\* sequences over S of length 0 .. n
SeqUpTo(S, n) == UNION {[1 .. k -> S] : k \in 0 .. n}

\* how timestamps run along the rows of an input: ascending, descending,
\* equal two by two
TsPatterns == {"asc", "desc", "pairs"}

ts_at(pattern, i, n) ==
    CASE pattern = "asc"  -> i - 1
      [] pattern = "desc" -> n - i
      [] pattern = "pairs" -> (i - 1) \div 2

\* Inputs of clean_data
MaxCleanRows == 2

CleanColumnSets ==
    {collector_columns,
     required_columns,
     required_columns \cup {"nh3"},
     collector_columns \ {"aqi"}}

CleanCells == [city : Cities, aqi : {Null, V(3), V(6)}, pm2_5 : {Null, V(50), V(501)}]

\* the input table with the given columns, timestamps and cells
clean_input(columns, pattern, q) ==
    table(columns,
          [i \in 1 .. Len(q) |->
              raw_row(ts_at(pattern, i, Len(q)), q[i].city, q[i].aqi, q[i].pm2_5,
                      V(20), V(10))])

----------------------------------------------------------------------------
(* clean_data *)

\* the state in which a caller has just passed the table t to a method
called(t, at) ==
    /\ heap = store(<<>>, Arg, t)
    /\ df_clean = "none"
    /\ pc = at
    /\ stages = <<>>
    /\ result = "none"
    /\ error = "none"
    /\ input0 = t
    /\ method = "iqr"
    /\ ret = <<>>
    /\ raw_dir = <<>>
    /\ collector_idle
    /\ workflow_idle

Init ==
    \E columns \in CleanColumnSets, pattern \in {"asc", "desc"},
       q \in SeqUpTo(CleanCells, MaxCleanRows) :
        called(clean_input(columns, pattern, q), "validate_schema")

\* is_valid, errors = self.validate_schema(df); raise if not is_valid
clean_validate_schema ==
    /\ pc = "validate_schema"
    /\ stages' = Append(stages, "validate_schema")
    /\ IF validate_schema(heap[Arg])[1]
       THEN pc' = "copy" /\ error' = error
       ELSE pc' = "raised" /\ error' = "DataQualityError"
    /\ UNCHANGED <<heap, df_clean, result, input0, elsewhere>>

\* df_clean = df.copy()
clean_copy ==
    /\ pc = "copy"
    /\ heap' = store(heap, copy_ref(Arg), copy(heap[Arg]))
    /\ df_clean' = copy_ref(Arg)
    /\ pc' = "validate_data_ranges"
    /\ UNCHANGED <<stages, result, error, input0, elsewhere>>

\* df_clean = self.validate_data_ranges(df_clean)
clean_validate_data_ranges ==
    /\ pc = "validate_data_ranges"
    /\ stages' = Append(stages, "validate_data_ranges")
    /\ IF ranges_raises(heap[df_clean])
       THEN heap' = heap /\ pc' = "raised" /\ error' = "TypeError"
       ELSE /\ heap' = store(heap, df_clean, validate_data_ranges(heap[df_clean]))
            /\ pc' = "handle_missing_values"
            /\ error' = error
    /\ UNCHANGED <<df_clean, result, input0, elsewhere>>

\* df_clean = self.handle_missing_values(df_clean)
clean_handle_missing_values ==
    /\ pc = "handle_missing_values"
    /\ stages' = Append(stages, "handle_missing_values")
    /\ \E out \in handle_missing_values(heap, df_clean) :
          /\ heap' = out.heap
          /\ IF out.error = "none"
             THEN df_clean' = out.ret /\ pc' = "detect_outliers" /\ error' = error
             ELSE df_clean' = df_clean /\ pc' = "raised" /\ error' = out.error
    /\ UNCHANGED <<result, input0, elsewhere>>

\* df_clean = self.detect_outliers(df_clean)
clean_detect_outliers ==
    /\ pc = "detect_outliers"
    /\ stages' = Append(stages, "detect_outliers")
    /\ heap' = store(heap, df_clean, detect_outliers(heap[df_clean], "iqr"))
    /\ pc' = "add_derived_features"
    /\ UNCHANGED <<df_clean, result, error, input0, elsewhere>>

\* df_clean = self.add_derived_features(df_clean); return df_clean
clean_add_derived_features ==
    /\ pc = "add_derived_features"
    /\ stages' = Append(stages, "add_derived_features")
    /\ heap' = store(heap, df_clean, add_derived_features(heap[df_clean]))
    /\ result' = df_clean
    /\ pc' = "returned"
    /\ UNCHANGED <<df_clean, error, input0, elsewhere>>

Next ==
    \/ clean_validate_schema
    \/ clean_copy
    \/ clean_validate_data_ranges
    \/ clean_handle_missing_values
    \/ clean_detect_outliers
    \/ clean_add_derived_features

Spec == Init /\ [][Next]_vars

----------------------------------------------------------------------------
(* validate_data_ranges called on its own *)

MaxRangeRows == 2

\* where a value lies relative to the bound [lo, hi] of its column
RangeLevels == {"null", "below", "min", "mid", "max", "above"}

level_cell(level, lo, hi) ==
    CASE level = "null"  -> Null
      [] level = "below" -> V(lo - 1)
      [] level = "min"   -> V(lo)
      [] level = "mid"   -> V((lo + hi) \div 2)
      [] level = "max"   -> V(hi)
      [] level = "above" -> V(hi + 1)

\* the cell of a numeric column at a level: relative to the column's bound,
\* or to [0, 100] for the columns that have none (nh3, no)
column_cell(c, level) ==
    IF c \in DOMAIN ranges THEN level_cell(level, ranges[c][1], ranges[c][2])
    ELSE level_cell(level, 0, 100)

RangeColumnSets ==
    {collector_columns,
     required_columns,
     collector_columns \ {"pm2_5"},
     collector_columns \ {"aqi", "co"}}

\* one row: the focus column at its own level, every other numeric column
\* at the level of the rest
range_row(i, focus, level, rest) ==
    [c \in collector_columns |->
        IF c \in pollutant_cols \cup {"aqi"}
        THEN column_cell(c, IF c = focus THEN level ELSE rest)
        ELSE raw_row(i - 1, "bangkok", Null, Null, Null, Null)[c]]

RangeCells == [level : RangeLevels, rest : {"mid", "above"}]

range_input(columns, focus, q) ==
    table(columns, [i \in 1 .. Len(q) |-> range_row(i, focus, q[i].level, q[i].rest)])

InitRanges ==
    \E columns \in RangeColumnSets, focus \in DOMAIN ranges,
       q \in SeqUpTo(RangeCells, MaxRangeRows) :
        called(range_input(columns, focus, q), "call")

\* a caller's validate_data_ranges(df): masks df in place and returns it
call_validate_data_ranges ==
    /\ pc = "call"
    /\ stages' = Append(stages, "validate_data_ranges")
    /\ heap' = store(heap, Arg, validate_data_ranges(heap[Arg]))
    /\ result' = Arg
    /\ pc' = "returned"
    /\ UNCHANGED <<df_clean, error, input0, elsewhere>>

NextRanges == call_validate_data_ranges

SpecRanges == InitRanges /\ [][NextRanges]_vars

----------------------------------------------------------------------------
(* handle_missing_values called on its own *)

MaxMissingRows == 5

\* the rows of an input: a city and whether pm2_5 was read, per row; the
\* reading of row i is 10 + i, so that a filled cell shows where it came from
MissingCells == [city : Cities, read : BOOLEAN]

\* the shapes of an input: how its timestamps run, and which rows (by
\* position) have no aqi
MissingShapes ==
    {<<"asc", {}>>, <<"asc", {2, 4}>>, <<"desc", {1}>>, <<"desc", {3}>>,
     <<"pairs", {}>>, <<"pairs", {3}>>}

missing_row(i, n, pattern, cell, noaqi) ==
    raw_row(ts_at(pattern, i, n), cell.city,
            IF i \in noaqi THEN Null ELSE V(1 + (i % 5)),
            IF cell.read THEN V(10 + i) ELSE Null,
            IF i % 2 = 0 THEN Null ELSE V(20 + i),
            IF i % 3 = 0 THEN V(30 + i) ELSE Null)

missing_input(columns, pattern, noaqi, q) ==
    table(columns,
          [i \in 1 .. Len(q) |-> missing_row(i, Len(q), pattern, q[i], noaqi)])

\* the inputs have all the collector's columns or, for the ascending inputs
\* with every aqi present, only the required ones (no nh3, no no)
InitMissing ==
    \E columns \in {collector_columns, required_columns},
       shape \in MissingShapes,
       q \in SeqUpTo(MissingCells, MaxMissingRows) :
        /\ columns = required_columns => shape = <<"asc", {}>>
        /\ called(missing_input(columns, shape[1], shape[2], q), "call")

\* a caller's handle_missing_values(df)
call_handle_missing_values ==
    /\ pc = "call"
    /\ stages' = Append(stages, "handle_missing_values")
    /\ \E out \in handle_missing_values(heap, Arg) :
          /\ heap' = out.heap
          /\ result' = out.ret
          /\ error' = out.error
          /\ pc' = IF out.error = "none" THEN "returned" ELSE "raised"
    /\ UNCHANGED <<df_clean, input0, elsewhere>>

NextMissing == call_handle_missing_values

SpecMissing == InitMissing /\ [][NextMissing]_vars

----------------------------------------------------------------------------
(* detect_outliers called on its own *)

MaxOutlierRows == 5

\* the method arguments tried: the default, the other one the docstring
\* names, and one nobody names
OutlierMethods == {"iqr", "zscore", "bogus"}

\* pm2_5 readings: none, two ordinary ones and a far one
OutlierCells == {Null, V(10), V(20), V(1000)}

OutlierColumnSets == {collector_columns, collector_columns \ {"pm2_5"}}

\* pm2_5 as given; pm10 far off in the first row only; the rest constant
outlier_input(columns, q) ==
    table(columns,
          [i \in 1 .. Len(q) |->
              raw_row(i - 1, "bangkok", V(2), q[i],
                      IF i = 1 THEN V(900) ELSE V(20), V(10))])

InitOutliers ==
    \E columns \in OutlierColumnSets, m \in OutlierMethods,
       q \in SeqUpTo(OutlierCells, MaxOutlierRows) :
        /\ heap = store(<<>>, Arg, outlier_input(columns, q))
        /\ input0 = outlier_input(columns, q)
        /\ method = m
        /\ df_clean = "none" /\ pc = "call" /\ stages = <<>>
        /\ result = "none" /\ error = "none" /\ ret = <<>> /\ raw_dir = <<>>
        /\ collector_idle
        /\ workflow_idle

\* a caller's detect_outliers(df, method): no path raises, df is returned
call_detect_outliers ==
    /\ pc = "call"
    /\ stages' = Append(stages, "detect_outliers")
    /\ heap' = store(heap, Arg, detect_outliers(heap[Arg], method))
    /\ result' = Arg
    /\ pc' = "returned"
    /\ UNCHANGED <<df_clean, error, input0, elsewhere>>

NextOutliers == call_detect_outliers

SpecOutliers == InitOutliers /\ [][NextOutliers]_vars

----------------------------------------------------------------------------
(* validate_schema called on its own *)

MaxSchemaRows == 2

\* all the collector's columns, exactly the required ones, one or two
\* required columns absent, and nearly all of them absent
SchemaColumnSets ==
    {collector_columns,
     required_columns,
     collector_columns \ {"aqi"},
     required_columns \ {"timestamp", "co"},
     {"nh3", "city_key"}}

InitSchema ==
    \E columns \in SchemaColumnSets, pattern \in {"asc", "desc"},
       q \in SeqUpTo(CleanCells, MaxSchemaRows) :
        called(clean_input(columns, pattern, q), "call")

\* a caller's is_valid, errors = validate_schema(df)
call_validate_schema ==
    /\ pc = "call"
    /\ stages' = Append(stages, "validate_schema")
    /\ ret' = validate_schema(heap[Arg])
    /\ pc' = "returned"
    /\ UNCHANGED <<heap, df_clean, result, error, input0, method, raw_dir, collector, workflow>>

NextSchema == call_validate_schema

SpecSchema == InitSchema /\ [][NextSchema]_vars

----------------------------------------------------------------------------
(* add_derived_features called on its own *)

MaxFeatureRows == 2

\* aqi: none, every key of aqi_categories, and a value below and above them;
\* pm2_5 and pm10: read or not
FeatureCells ==
    [aqi : {Null, V(0), V(1), V(2), V(3), V(4), V(5), V(6)},
     pm2_5 : {Null, V(50)}, pm10 : {Null, V(20)}]

FeatureColumnSets ==
    {collector_columns,
     required_columns,
     collector_columns \ {"aqi"},
     collector_columns \ {"pm10"},
     collector_columns \ {"timestamp"}}

\* the rows are a day and an hour apart, starting on a Friday evening
feature_input(columns, q) ==
    table(columns,
          [i \in 1 .. Len(q) |->
              raw_row(92 + 25 * i, "bangkok", q[i].aqi, q[i].pm2_5, q[i].pm10, V(10))])

InitFeatures ==
    \E columns \in FeatureColumnSets, q \in SeqUpTo(FeatureCells, MaxFeatureRows) :
        called(feature_input(columns, q), "call")

\* a caller's add_derived_features(df): the columns are assigned on df
\* itself and df is returned, or a KeyError leaves df partly assigned
call_add_derived_features ==
    /\ pc = "call"
    /\ stages' = Append(stages, "add_derived_features")
    /\ IF features_raises(heap[Arg])
       THEN /\ heap' = store(heap, Arg, features_partial(heap[Arg]))
            /\ result' = result
            /\ error' = "KeyError"
            /\ pc' = "raised"
       ELSE /\ heap' = store(heap, Arg, add_derived_features(heap[Arg]))
            /\ result' = Arg
            /\ error' = error
            /\ pc' = "returned"
    /\ UNCHANGED <<df_clean, input0, elsewhere>>

NextFeatures == call_add_derived_features

SpecFeatures == InitFeatures /\ [][NextFeatures]_vars

----------------------------------------------------------------------------
(* generate_quality_report called on its own *)

MaxReportRows == 3

ReportCells == [city : Cities, aqi : {Null, V(3)}, pm2_5 : {Null, V(50)}]

\* raw tables, a table without timestamp and city_key, and the table
\* without any column that load_all_raw_data returns when it finds nothing
ReportColumnSets ==
    {collector_columns,
     required_columns,
     collector_columns \ {"timestamp", "city_key"},
     {}}

InitReport ==
    \E columns \in ReportColumnSets, pattern \in {"asc", "desc"},
       q \in SeqUpTo(ReportCells, MaxReportRows) :
        /\ columns = {} => q = <<>>
        /\ called(clean_input(columns, pattern, q), "call")

\* a caller's generate_quality_report(df)
call_generate_quality_report ==
    /\ pc = "call"
    /\ stages' = Append(stages, "generate_quality_report")
    /\ ret' = generate_quality_report(heap[Arg])
    /\ pc' = "returned"
    /\ UNCHANGED <<heap, df_clean, result, error, input0, method, raw_dir, collector, workflow>>

NextReport == call_generate_quality_report

SpecReport == InitReport /\ [][NextReport]_vars

----------------------------------------------------------------------------
(* load_raw_data and load_all_raw_data *)

\* A stored file is [ok, df]: whether pd.read_csv can parse it, and the
\* table it parses to.

\* pd.DataFrame(): no columns, no rows
empty_frame == [columns |-> {}, index |-> <<>>, rows |-> <<>>]

\* the tables of the files that parse, in the order of csv_files; a file
\* that does not parse is logged and skipped
RECURSIVE read_all(_)
read_all(files) ==
    IF files = <<>> THEN <<>>
    ELSE (IF Head(files).ok THEN <<Head(files).df>> ELSE <<>>) \o read_all(Tail(files))

\* the rows of the tables one after the other, each over all the columns: a
\* column a table does not have is NaN in its rows
RECURSIVE concat_rows(_, _)
concat_rows(dfs, columns) ==
    IF dfs = <<>> THEN <<>>
    ELSE [i \in Positions(Head(dfs)) |->
            [c \in columns |->
                IF c \in Head(dfs).columns THEN Head(dfs).rows[i][c] ELSE Null]]
         \o concat_rows(Tail(dfs), columns)

\* pd.concat(dfs, ignore_index=True): the union of the columns, the rows in
\* order, labelled 0, 1, ...
concat(dfs) ==
    LET columns == UNION {dfs[k].columns : k \in DOMAIN dfs}
        rows    == concat_rows(dfs, columns)
    IN [columns |-> columns,
        index   |-> [i \in 1 .. Len(rows) |-> i - 1],
        rows    |-> rows]

\* two rows agree on the columns of subset (NaN equals NaN here)
same_key(t, i, j, subset) == \A c \in subset : t.rows[i][c] = t.rows[j][c]

\* faulty variant: keep='last'
drop_duplicates_keep_last(t, subset) ==
    take(t, Ascending({i \in Positions(t) :
                         ~\E j \in Positions(t) : j > i /\ same_key(t, i, j, subset)}))

\* faulty variant: nothing is dropped
drop_duplicates_none(t, subset) == t

\* df.drop_duplicates(subset=..., keep='first'): a row is dropped when an
\* earlier row has the same key; the rows kept keep their labels
drop_duplicates(t, subset) ==
    take(t, Ascending({i \in Positions(t) :
                         ~\E j \in Positions(t) : j < i /\ same_key(t, i, j, subset)}))

\* load_all_raw_data over the files found: [error, df]. Nothing found or
\* nothing parsed gives pd.DataFrame(); drop_duplicates raises KeyError when
\* the combined table lacks a key column
load_all_raw_data(csv_files) ==
    LET dfs == read_all(csv_files)
    IN IF csv_files = <<>> \/ dfs = <<>>
       THEN [error |-> "none", df |-> empty_frame]
       ELSE IF ~({"timestamp", "city_key"} \subseteq concat(dfs).columns)
       THEN [error |-> "KeyError", df |-> empty_frame]
       ELSE [error |-> "none",
             df |-> drop_duplicates(concat(dfs), {"timestamp", "city_key"})]

\* load_raw_data of the k-th file name; a name past the last file is one
\* that does not exist. A file that does not parse raises out of read_csv
load_raw_data(files, k) ==
    IF k \notin DOMAIN files THEN [error |-> "FileNotFoundError", df |-> empty_frame]
    ELSE IF ~files[k].ok THEN [error |-> "ParserError", df |-> empty_frame]
    ELSE [error |-> "none", df |-> files[k].df]

\* the references the two loaders return: new objects
read_csv_ref == "pd.read_csv()"

combined_ref == "combined_df"

MaxLoadItems == 4

\* the (timestamp, city_key) pairs of the stored rows
LoadPairs == {<<0, "bangkok">>, <<0, "new_york">>, <<1, "bangkok">>}

\* what is stored, step by step: a row written to the current file; a new
\* file begun (header only so far); a file that does not parse; a second
\* copy of the last file; a file of another layout
LoadItems ==
    [kind : {"row"}, pair : LoadPairs]
    \cup [kind : {"newfile", "corrupt", "copy", "foreign"}, pair : {<<0, "bangkok">>}]

\* the i-th thing stored is a row: its pm2_5 reading is 10 + i, so that
\* every stored row is told apart from the others
stored_row(item, i) == raw_row(item.pair[1], item.pair[2], V(3), V(10 + i), V(20), V(10))

append_row(df, row) ==
    [columns |-> df.columns,
     index   |-> Append(df.index, Len(df.index)),
     rows    |-> Append(df.rows, row)]

\* the directory after the items from the i-th on are stored
RECURSIVE store_items(_, _, _)
store_items(items, i, files) ==
    IF i > Len(items) THEN files
    ELSE LET item == items[i]
             n    == Len(files)
             open == n > 0 /\ files[n].ok /\ files[n].df.columns = collector_columns
         IN store_items(items, i + 1,
              CASE item.kind = "row" ->
                     IF open
                     THEN [files EXCEPT ![n].df = append_row(@, stored_row(item, i))]
                     ELSE Append(files, [ok |-> TRUE,
                                         df |-> table(collector_columns,
                                                      <<stored_row(item, i)>>)])
                [] item.kind = "newfile" ->
                     Append(files, [ok |-> TRUE, df |-> table(collector_columns, <<>>)])
                [] item.kind = "corrupt" ->
                     Append(files, [ok |-> FALSE, df |-> empty_frame])
                [] item.kind = "copy" ->
                     IF n > 0 THEN Append(files, files[n]) ELSE files
                [] item.kind = "foreign" ->
                     Append(files, [ok |-> TRUE,
                                    df |-> table({"nh3"}, <<[nh3 |-> V(i)]>>)]))

InitLoad ==
    \E items \in SeqUpTo(LoadItems, MaxLoadItems) :
        /\ raw_dir = store_items(items, 1, <<>>)
        /\ heap = <<>>
        /\ input0 = empty_frame
        /\ df_clean = "none" /\ pc = "call" /\ stages = <<>>
        /\ result = "none" /\ error = "none" /\ method = "iqr" /\ ret = <<>>
        /\ collector_idle
        /\ workflow_idle

\* a caller's load_raw_data(filename) for the first file or for a name that
\* does not exist; ret remembers which
call_load_raw_data ==
    /\ pc = "call"
    /\ \E k \in {1, Len(raw_dir) + 1} :
          LET out == load_raw_data(raw_dir, k)
          IN /\ stages' = Append(stages, "load_raw_data")
             /\ ret' = <<k>>
             /\ error' = out.error
             /\ IF out.error = "none"
                THEN /\ heap' = store(heap, read_csv_ref, out.df)
                     /\ result' = read_csv_ref
                     /\ pc' = "loaded"
                ELSE /\ heap' = heap
                     /\ result' = result
                     /\ pc' = "raised"
    /\ UNCHANGED <<df_clean, input0, method, raw_dir, collector, workflow>>

\* a caller's load_all_raw_data(), at once or after a load_raw_data
call_load_all_raw_data ==
    /\ pc \in {"call", "loaded"}
    /\ LET out == load_all_raw_data(raw_dir)
       IN /\ stages' = Append(stages, "load_all_raw_data")
          /\ error' = out.error
          /\ IF out.error = "none"
             THEN /\ heap' = store(heap, combined_ref, out.df)
                  /\ result' = combined_ref
                  /\ pc' = "returned"
             ELSE /\ heap' = heap
                  /\ result' = result
                  /\ pc' = "raised"
    /\ UNCHANGED <<df_clean, input0, method, ret, raw_dir, collector, workflow>>

NextLoad ==
    \/ call_load_raw_data
    \/ call_load_all_raw_data

SpecLoad == InitLoad /\ [][NextLoad]_vars

----------------------------------------------------------------------------
(* AirQualityCollector.fetch_city_data (src/src/data/collectors.py) *)

\* self.max_calls_per_day
max_calls_per_day == 1000

\* Config.get_city: the configuration of a city, or None (Null) for a key
\* that is not configured
get_city(city) ==
    IF city \in Cities
    THEN V([name |-> city, country |-> IF city = "bangkok" THEN "TH" ELSE "US"])
    ELSE Null

\* A response body that parses is [has_list, list]: whether it has the
\* 'list' field, and the readings of that field, each [main, components]
\* telling which of its sub-objects it has.
\* _validate_response: 'list' present and not empty, and its first entry
\* has 'main' and 'components' (later entries are not looked at)
validate_response(data) ==
    /\ data.has_list
    /\ data.list # <<>>
    /\ data.list[1].main
    /\ data.list[1].components

\* what requests.get and the lines after it can meet:
\*   timeout           requests.get raises Timeout
\*   connection_error  requests.get raises another RequestException
\*   http_error        a response arrives, raise_for_status raises HTTPError
\*   bad_json          response.json() raises requests' JSONDecodeError, a
\*                     RequestException (requests 2.27 and later)
\*   bad_json_value    response.json() raises a plain ValueError (earlier
\*                     versions of requests)
\*   json              the body parses
\* the kinds the two retrying handlers catch
Transient == {"timeout", "connection_error", "http_error", "bad_json"}

\* the kinds in which requests.get returned a response (the call is counted)
Answered == {"http_error", "bad_json", "bad_json_value", "json"}

\* what one request comes to: "transient", "ok", or "fatal" (an exception
\* that `except Exception` turns into APIError)
outcome(response) ==
    IF response.kind \in Transient THEN "transient"
    ELSE IF response.kind = "json" /\ validate_response(response.data) THEN "ok"
    ELSE "fatal"

\* the event a request leaves in the history: its kind, "ok" or "invalid"
\* for a body that parsed
event(response) ==
    IF response.kind # "json" THEN response.kind
    ELSE IF validate_response(response.data) THEN "ok" ELSE "invalid"

\* faulty variant: the limit itself may still be used
rate_limited_late(calls) == calls > max_calls_per_day

\* if self.api_calls_today >= self.max_calls_per_day
rate_limited(calls) == calls >= max_calls_per_day

\* faulty variant: the last attempt sleeps as well
attempts_remain_after_last(k, n) == k < n

\* if attempt < max_retries - 1
attempts_remain(k, n) == k < n - 1

\* the dictionary returned: the body with the city's metadata added
fetched(data, city) ==
    [list |-> data.list,
     city_key |-> city,
     city_name |-> get_city(city)[1].name,
     country |-> get_city(city)[1].country,
     fetch_timestamp |-> "now"]

MaxRetries == 3

\* the counter when the call is made: a fresh collector, or one that has
\* used (nearly) all of its calls
CallsBefore == {0, max_calls_per_day - 2, max_calls_per_day - 1, max_calls_per_day}

\* a reading: which of 'main', 'components' and 'dt' it has, and its aqi
Reading == [main : BOOLEAN, components : BOOLEAN, dt : BOOLEAN, aqi : {3, 6, text_value}]

\* bodies: no list, an empty list, one reading, and a sound reading
\* followed by one without main
Bodies ==
    {[has_list |-> FALSE, list |-> <<>>], [has_list |-> TRUE, list |-> <<>>]}
    \cup {[has_list |-> TRUE, list |-> <<r>>] : r \in Reading}
    \cup {[has_list |-> TRUE,
           list |-> <<[main |-> TRUE, components |-> TRUE, dt |-> TRUE, aqi |-> 3],
                      [main |-> FALSE, components |-> TRUE, dt |-> TRUE, aqi |-> 3]>>]}

Responses ==
    [kind : {"timeout", "connection_error", "http_error", "bad_json", "bad_json_value"},
     data : {[has_list |-> FALSE, list |-> <<>>]}]
    \cup [kind : {"json"}, data : Bodies]

InitFetch ==
    \E city \in Cities \cup {"atlantis"}, n \in 0 .. MaxRetries, calls \in CallsBefore :
        /\ api_calls_today = calls
        /\ max_retries = n
        /\ city_key = city
        /\ attempt = 0
        /\ events = <<>>
        /\ uncounted = 0
        /\ cities_todo = <<>> /\ all_data = <<>> /\ visited = <<>>
        /\ pc = "call"
        /\ error = "none"
        /\ ret = <<>>
        /\ heap = <<>> /\ input0 = empty_frame /\ df_clean = "none" /\ stages = <<>>
        /\ result = "none" /\ method = "iqr" /\ raw_dir = <<>>
        /\ workflow_idle

\* the state outside the collector, which a fetch leaves alone
cleaner == <<heap, df_clean, stages, result, input0, method, raw_dir, workflow>>

\* the lines before the loop: the city is looked up (ValueError if it is not
\* configured); range(max_retries) is entered, or is empty and the function
\* falls off its end, returning None
fetch_begin ==
    /\ pc = "call"
    /\ IF get_city(city_key) = Null
       THEN pc' = "raised" /\ error' = "ValueError"
       ELSE /\ error' = error
            /\ pc' = IF 0 < max_retries THEN "try" ELSE "returned"
    /\ attempt' = 0
    /\ UNCHANGED <<api_calls_today, max_retries, city_key, events, uncounted, ret, batch, cleaner>>

\* one pass through the try block: the rate limit check, then the request
\* and what follows from its response
fetch_attempt ==
    /\ pc = "try"
    /\ IF rate_limited(api_calls_today)
       THEN /\ events' = Append(events, "budget")
            /\ error' = "APIError"
            /\ pc' = "raised"
            /\ UNCHANGED <<api_calls_today, uncounted, ret>>
       ELSE \E response \in Responses :
            /\ events' = Append(events, event(response))
            /\ api_calls_today' =
                 IF response.kind \in Answered THEN api_calls_today + 1
                 ELSE api_calls_today
            /\ uncounted' =
                 IF response.kind \in Answered THEN uncounted ELSE uncounted + 1
            /\ CASE outcome(response) = "ok" ->
                      /\ ret' = fetched(response.data, city_key)
                      /\ error' = error
                      /\ pc' = "returned"
                 [] outcome(response) = "fatal" ->
                      /\ ret' = ret
                      /\ error' = "APIError"
                      /\ pc' = "raised"
                 [] outcome(response) = "transient" ->
                      /\ ret' = ret
                      /\ IF attempts_remain(attempt, max_retries)
                         THEN pc' = "sleep" /\ error' = error
                         ELSE pc' = "raised" /\ error' = "APIError"
    /\ UNCHANGED <<max_retries, city_key, attempt, batch, cleaner>>

\* time.sleep(retry_delay), then the next value of range(max_retries)
fetch_sleep ==
    /\ pc = "sleep"
    /\ events' = Append(events, "sleep")
    /\ attempt' = attempt + 1
    /\ pc' = IF attempt + 1 < max_retries THEN "try" ELSE "returned"
    /\ UNCHANGED <<api_calls_today, max_retries, city_key, error, uncounted, ret, batch, cleaner>>

NextFetch ==
    \/ fetch_begin
    \/ fetch_attempt
    \/ fetch_sleep

SpecFetch == InitFetch /\ [][NextFetch]_vars

\* the call runs to its end: requests.get is bounded by its timeout and
\* time.sleep returns, so a step that can be taken is taken
SpecFetchFair == SpecFetch /\ WF_vars(NextFetch)

----------------------------------------------------------------------------
(* fetch_all_cities and get_api_call_stats *)

\* the configured cities in the order of the configuration
configured_cities == <<"bangkok", "new_york">>

\* faulty variant: a reading without 'dt' is accepted
parse_raises_ignoring_dt(raw_data) ==
    \/ raw_data = Null
    \/ raw_data.list = <<>>
    \/ ~raw_data.list[1].main
    \/ ~raw_data.list[1].components

\* parse_api_response raises APIError: raw_data is None, or the first
\* reading is missing, has no 'dt', no 'main' or no 'components'
parse_raises(raw_data) ==
    \/ raw_data = Null
    \/ raw_data.list = <<>>
    \/ ~raw_data.list[1].dt
    \/ ~raw_data.list[1].main
    \/ ~raw_data.list[1].components

\* the flat record parse_api_response builds from the first reading (all
\* readings carry the time of the poll; the pollutant fields are fixed)
parse_api_response(raw_data) ==
    [timestamp |-> 0,
     city_key |-> raw_data.city_key,
     city_name |-> raw_data.city_name,
     country |-> raw_data.country,
     fetch_timestamp |-> raw_data.fetch_timestamp,
     aqi |-> raw_data.list[1].aqi]

\* the dictionary of get_api_call_stats; usage_percentage is the quotient
\* calls / max * 100, kept as numerator and denominator
get_api_call_stats(calls) ==
    [calls_made_today |-> calls,
     max_calls_per_day |-> max_calls_per_day,
     remaining_calls |-> max_calls_per_day - calls,
     usage_percentage |-> <<calls * 100, max_calls_per_day>>]

MaxAllRetries == 2

\* a collector that is fresh or has one call left, about to fetch all cities
InitAll ==
    \E n \in 0 .. MaxAllRetries, calls \in {0, max_calls_per_day - 1} :
        /\ api_calls_today = calls
        /\ max_retries = n
        /\ city_key = "none"
        /\ attempt = 0
        /\ events = <<>>
        /\ uncounted = 0
        /\ cities_todo = <<>> /\ all_data = <<>> /\ visited = <<>>
        /\ pc = "all_call"
        /\ error = "none"
        /\ ret = <<>>
        /\ heap = <<>> /\ input0 = empty_frame /\ df_clean = "none" /\ stages = <<>>
        /\ result = "none" /\ method = "iqr" /\ raw_dir = <<>>
        /\ workflow_idle

\* cities = self.config.get_cities(); all_data = []
all_begin ==
    /\ pc = "all_call"
    /\ cities_todo' = configured_cities
    /\ all_data' = <<>>
    /\ visited' = <<>>
    /\ pc' = "all_next"
    /\ UNCHANGED <<api_calls_today, max_retries, city_key, attempt, events, uncounted,
                   error, ret, cleaner>>

\* the next city of the loop: fetch_city_data(city_key) is called
all_next_city ==
    /\ pc = "all_next"
    /\ cities_todo # <<>>
    /\ city_key' = Head(cities_todo)
    /\ cities_todo' = Tail(cities_todo)
    /\ visited' = Append(visited, Head(cities_todo))
    /\ attempt' = 0
    /\ ret' = Null
    /\ error' = "none"
    /\ pc' = "call"
    /\ UNCHANGED <<api_calls_today, max_retries, events, uncounted, all_data, cleaner>>

\* the rest of the loop body once fetch_city_data has returned or raised
\* (no stage of the cleaner has run: the return is the fetch's): a returned
\* value is parsed, appended, and time.sleep(0.5) follows; any exception (of
\* the fetch or of the parse) is caught and logged, and the loop goes on
all_collect ==
    /\ pc \in {"returned", "raised"}
    /\ stages = <<>>
    /\ IF pc = "returned" /\ ~parse_raises(ret)
       THEN /\ all_data' = Append(all_data, parse_api_response(ret))
            /\ events' = Append(events, "delay")
       ELSE /\ all_data' = all_data
            /\ events' = events
    /\ error' = "none"
    /\ pc' = "all_next"
    /\ UNCHANGED <<api_calls_today, max_retries, city_key, attempt, uncounted, ret,
                   cities_todo, visited, cleaner>>

\* the loop is over: return all_data
all_return ==
    /\ pc = "all_next"
    /\ cities_todo = <<>>
    /\ pc' = "all_returned"
    /\ UNCHANGED <<collector, error, ret, cleaner>>

\* get_api_call_stats() on the collector after the batch
call_get_api_call_stats ==
    /\ pc = "all_returned"
    /\ ret' = get_api_call_stats(api_calls_today)
    /\ pc' = "stats_returned"
    /\ UNCHANGED <<collector, error, cleaner>>

NextAll ==
    \/ all_begin
    \/ all_next_city
    \/ fetch_begin
    \/ fetch_attempt
    \/ fetch_sleep
    \/ all_collect
    \/ all_return
    \/ call_get_api_call_stats

SpecAll == InitAll /\ [][NextAll]_vars

----------------------------------------------------------------------------
(* collect_data.main: fetch, save raw, load, clean, save cleaned, report *)

\* the row pd.DataFrame(data) holds for one parsed record
frame_row(parsed) ==
    raw_row(parsed.timestamp, parsed.city_key, V(parsed.aqi), V(10), V(20), V(10))

\* pd.DataFrame(data)
DataFrame(data) ==
    table(collector_columns, [i \in DOMAIN data |-> frame_row(data[i])])

\* df.to_csv(filepath, index=False) and the file it leaves: the index labels
\* are not written (a reader numbers the rows anew), a datetime is written
\* as text
to_csv(t) ==
    [ok |-> TRUE,
     df |-> table(t.columns,
                  [i \in Positions(t) |->
                      [c \in t.columns |->
                          IF c = "timestamp" /\ notnull(t.rows[i][c])
                          THEN V(ts_str(t.rows[i][c][1].t))
                          ELSE t.rows[i][c]]])]

\* a file of an earlier run in the raw directory, and one in the processed
\* directory
earlier_raw_file ==
    [ok |-> TRUE,
     df |-> table(collector_columns, <<raw_row(0, "bangkok", V(3), V(10), V(20), V(10))>>)]

earlier_processed_file ==
    to_csv(add_derived_features(earlier_raw_file.df))

MaxMainRetries == 2

\* main starts: a new collector, directories empty or holding earlier files
InitMain ==
    \E n \in 0 .. MaxMainRetries, earlier \in BOOLEAN :
        /\ api_calls_today = 0
        /\ max_retries = n
        /\ city_key = "none"
        /\ attempt = 0
        /\ events = <<>>
        /\ uncounted = 0
        /\ cities_todo = <<>> /\ all_data = <<>> /\ visited = <<>>
        /\ pc = "all_call"
        /\ error = "none"
        /\ ret = <<>>
        /\ heap = <<>> /\ input0 = empty_frame /\ df_clean = "none" /\ stages = <<>>
        /\ result = "none" /\ method = "iqr"
        /\ raw_dir = IF earlier THEN <<earlier_raw_file>> ELSE <<>>
        /\ processed_dir = IF earlier THEN <<earlier_processed_file>> ELSE <<>>
        /\ exit_code = -1

\* after fetch_all_cities: return 1 if nothing was collected, else
\* save_to_csv(all_data) under a new name
main_save_raw ==
    /\ pc = "all_returned"
    /\ IF all_data = <<>>
       THEN /\ exit_code' = 1
            /\ pc' = "exited"
            /\ raw_dir' = raw_dir
       ELSE /\ exit_code' = exit_code
            /\ pc' = "load"
            /\ raw_dir' = Append(raw_dir, to_csv(DataFrame(all_data)))
    /\ UNCHANGED <<heap, df_clean, stages, result, error, input0, method, ret,
                   collector, processed_dir>>

\* df_raw = cleaner.load_raw_data(raw_filepath.name); the read may fail (the
\* file system); an exception is caught by main, which returns 1
main_load ==
    /\ pc = "load"
    /\ \E readable \in BOOLEAN :
          LET k    == Len(raw_dir)
              seen == [raw_dir EXCEPT ![k].ok = readable]
              out  == load_raw_data(seen, k)
          IN IF out.error = "none"
             THEN /\ heap' = store(heap, Arg, out.df)
                  /\ input0' = out.df
                  /\ error' = error
                  /\ exit_code' = exit_code
                  /\ pc' = "validate_schema"
             ELSE /\ heap' = heap
                  /\ input0' = input0
                  /\ error' = out.error
                  /\ exit_code' = 1
                  /\ pc' = "exited"
    /\ UNCHANGED <<df_clean, stages, result, method, ret, raw_dir, collector,
                   processed_dir>>

\* faulty variant: the cleaned file is written whether clean_data returned
\* or raised
main_save_cleaned_always ==
    /\ pc \in {"returned", "raised"}
    /\ stages # <<>>
    /\ processed_dir' =
          Append(processed_dir,
                 to_csv(heap[IF pc = "returned" THEN result ELSE Arg]))
    /\ pc' = IF pc = "returned" THEN "report" ELSE "exited"
    /\ exit_code' = IF pc = "returned" THEN exit_code ELSE 1
    /\ UNCHANGED <<heap, df_clean, stages, result, error, input0, method, ret,
                   raw_dir, collector>>

\* clean_data has returned: cleaner.save_cleaned_data(df_clean)
main_save_cleaned ==
    /\ pc = "returned"
    /\ stages # <<>>
    /\ processed_dir' = Append(processed_dir, to_csv(heap[result]))
    /\ pc' = "report"
    /\ UNCHANGED <<heap, df_clean, stages, result, error, input0, method, ret,
                   raw_dir, collector, exit_code>>

\* clean_data has raised: except Exception, return 1
main_failed ==
    /\ pc = "raised"
    /\ stages # <<>>
    /\ exit_code' = 1
    /\ pc' = "exited"
    /\ UNCHANGED <<heap, df_clean, stages, result, error, input0, method, ret,
                   raw_dir, collector, processed_dir>>

\* report = cleaner.generate_quality_report(df_clean)
main_report ==
    /\ pc = "report"
    /\ ret' = generate_quality_report(heap[result])
    /\ pc' = "stats"
    /\ UNCHANGED <<heap, df_clean, stages, result, error, input0, method,
                   raw_dir, collector, workflow>>

\* stats = collector.get_api_call_stats(); return 0
main_stats ==
    /\ pc = "stats"
    /\ ret' = get_api_call_stats(api_calls_today)
    /\ exit_code' = 0
    /\ pc' = "exited"
    /\ UNCHANGED <<heap, df_clean, stages, result, error, input0, method,
                   raw_dir, collector, processed_dir>>

NextMain ==
    \/ all_begin
    \/ all_next_city
    \/ fetch_begin
    \/ fetch_attempt
    \/ fetch_sleep
    \/ all_collect
    \/ all_return
    \/ main_save_raw
    \/ main_load
    \/ clean_validate_schema
    \/ clean_copy
    \/ clean_validate_data_ranges
    \/ clean_handle_missing_values
    \/ clean_detect_outliers
    \/ clean_add_derived_features
    \/ main_save_cleaned
    \/ main_failed
    \/ main_report
    \/ main_stats

SpecMain == InitMain /\ [][NextMain]_vars

----------------------------------------------------------------------------
(* Properties of clean_data, checked under Spec *)

\* the fixed order of the stages
StageOrder ==
    <<"validate_schema", "validate_data_ranges", "handle_missing_values",
      "detect_outliers", "add_derived_features">>

IsPrefix(p, q) == Len(p) <= Len(q) /\ \A i \in 1 .. Len(p) : p[i] = q[i]

\* the input has all 11 required columns and at least one row
SchemaValidInput ==
    /\ \A c \in {"timestamp", "city_key", "city_name", "country", "aqi",
                 "pm2_5", "pm10", "no2", "o3", "co", "so2"} : c \in input0.columns
    /\ Len(input0.rows) >= 1

Returned == pc = "returned"

Raised == pc = "raised"

\* C1: every row of the table clean_data returns has a non-null aqi.
C1_ReturnedAqiNonNull ==
    Returned =>
        \A i \in 1 .. Len(heap[result].rows) : heap[result].rows[i]["aqi"] # <<>>

\* a non-empty table is returned for an input that had a row without aqi
C1_Witness ==
    /\ Returned
    /\ Len(heap[result].rows) >= 1
    /\ \E i \in 1 .. Len(input0.rows) : input0.rows[i]["aqi"] = <<>>

\* C2 (as claimed): the stages run in the fixed order, and on a schema-valid
\* input every run executes all five of them exactly once.
C2_AllStagesOnceInOrder ==
    /\ IsPrefix(stages, StageOrder)
    /\ (SchemaValidInput /\ (Returned \/ Raised)) => stages = StageOrder

\* C3: the caller's table is never changed, whether clean_data returns or raises.
C3_InputNeverMutated == heap[Arg] = input0

\* clean_data has returned a table that differs from the input in a masked cell
C3_Witness ==
    /\ Returned
    /\ \E i \in 1 .. Len(input0.rows) : input0.rows[i]["pm2_5"] = <<501>>
    /\ \E i \in 1 .. Len(heap["df.copy()"].rows) :
          /\ input0.rows[i]["pm2_5"] = <<501>>
          /\ heap["df.copy()"].rows[i]["pm2_5"] = <<>>

\* C4: on an input with a required column missing or with zero rows,
\* clean_data raises the schema error and no other stage runs: no copy is
\* made, nothing is masked, filled or derived, and no table is returned.
C4_SchemaErrorFailsFast ==
    ~SchemaValidInput =>
        /\ IsPrefix(stages, <<"validate_schema">>)
        /\ DOMAIN heap = {"df"}
        /\ df_clean = "none"
        /\ result = "none"
        /\ pc \in {"validate_schema", "raised"}
        /\ (Raised => error = "DataQualityError")

\* the schema error was raised for a non-empty input without the aqi column
C4_Witness ==
    /\ Raised
    /\ error = "DataQualityError"
    /\ "aqi" \notin input0.columns
    /\ Len(input0.rows) >= 1

\* C5 (as claimed): on a schema-valid input no stage raises.
C5_NoStageRaises == SchemaValidInput => error = "none"

\* C10: neither the table the carry-forward has filled nor the table
\* clean_data returns holds, in a bounded column, a value outside its bound;
\* a reading that was out of range in the input therefore appears in no row,
\* neither its own nor one filled from it.
C10_NoOutOfRangeInOutput ==
    \A r \in {"df.sort_values()", "df.dropna()"} \cap DOMAIN heap :
        \A i \in 1 .. Len(heap[r].rows) :
            \A c \in {"pm2_5", "pm10", "no2", "o3", "co", "so2", "aqi"} :
                LET cell == heap[r].rows[i][c]
                IN cell # <<>> => (ranges[c][1] <= cell[1] /\ cell[1] <= ranges[c][2])

\* an out-of-range pm2_5 reading was followed, in the same city, by a row
\* with no pm2_5 reading, and both rows are in the returned table
C10_Witness ==
    /\ Returned
    /\ Len(heap[result].rows) = 2
    /\ \E i, j \in 1 .. Len(input0.rows) :
          /\ input0.rows[i]["city_key"] = input0.rows[j]["city_key"]
          /\ input0.rows[i]["timestamp"][1].t < input0.rows[j]["timestamp"][1].t
          /\ input0.rows[i]["pm2_5"] = <<501>>
          /\ input0.rows[j]["pm2_5"] = <<>>

----------------------------------------------------------------------------
(* Properties of validate_data_ranges, checked under SpecRanges *)

BoundedColumns == {"pm2_5", "pm10", "no2", "o3", "co", "so2", "aqi"}

\* C6: after validate_data_ranges every cell of a bounded column that was
\* below min or above max is null, and every other cell (in range, on a
\* bound, null, or of a column without bound) is as it was; the rows and
\* the columns are the same, also when a bounded column is absent.
C6_RangeMasking ==
    Returned =>
        /\ error = "none"
        /\ result = "df"
        /\ heap[result].columns = input0.columns
        /\ heap[result].index = input0.index
        /\ Len(heap[result].rows) = Len(input0.rows)
        /\ \A i \in 1 .. Len(input0.rows) : \A c \in input0.columns :
              LET a == input0.rows[i][c]
                  b == heap[result].rows[i][c]
              IN IF /\ c \in BoundedColumns
                    /\ a # <<>>
                    /\ (a[1] < ranges[c][1] \/ a[1] > ranges[c][2])
                 THEN b = <<>>
                 ELSE b = a

\* pm2_5 is absent; a pm10 reading on its upper bound was kept and one just
\* above it was masked
C6_Witness ==
    /\ Returned
    /\ "pm2_5" \notin input0.columns
    /\ \E i, j \in 1 .. Len(input0.rows) :
          /\ input0.rows[i]["pm10"] = <<1000>>
          /\ heap[result].rows[i]["pm10"] = <<1000>>
          /\ input0.rows[j]["pm10"] = <<1001>>
          /\ heap[result].rows[j]["pm10"] = <<>>

----------------------------------------------------------------------------
(* Properties of handle_missing_values, checked under SpecMissing *)

Pollutants == {"pm2_5", "pm10", "no2", "o3", "co", "so2", "nh3", "no"}

\* the table after the sort and the carry-forward, before the rows without
\* aqi are dropped
Filled == heap["df.sort_values()"]

\* the cell that the row at position i of Filled had in the input
Before(i, c) == input0.rows[Filled.index[i] + 1][c]

\* the earlier rows of the same city, in the order of Filled
EarlierInCity(i) ==
    {j \in 1 .. i - 1 : Filled.rows[j]["city_key"] = Filled.rows[i]["city_key"]}

\* the earlier rows of the same city that had a reading of c
EarlierReadings(i, c) == {j \in EarlierInCity(i) : Before(j, c) # <<>>}

Latest(S) == CHOOSE m \in S : \A j \in S : j <= m

\* how many rows of the city lie after its latest reading of c, up to row i
GapLength(i, c) ==
    Cardinality({j \in EarlierInCity(i) : j > Latest(EarlierReadings(i, c))}) + 1

\* Filled holds the input rows, each once, in ascending order of timestamp
FilledIsSortedInput ==
    /\ Len(Filled.rows) = Len(input0.rows)
    /\ {Filled.index[i] : i \in 1 .. Len(Filled.index)} = {k - 1 : k \in 1 .. Len(input0.rows)}
    /\ \A i \in 1 .. Len(Filled.rows) - 1 :
          Filled.rows[i]["timestamp"][1].t <= Filled.rows[i + 1]["timestamp"][1].t

\* the returned rows are rows of Filled
ReturnedFromFilled ==
    \A k \in 1 .. Len(heap[result].rows) :
        \E i \in 1 .. Len(Filled.rows) :
            /\ Filled.index[i] = heap[result].index[k]
            /\ Filled.rows[i] = heap[result].rows[k]

\* C7: per city, in timestamp order, and per pollutant: a cell that had a
\* reading keeps it; a null cell with no earlier reading in the city stays
\* null; a null cell that is the 1st, 2nd or 3rd of the run after a reading v
\* becomes v, and from the 4th on it stays null.
C7_CarryForwardBound ==
    Returned =>
        /\ FilledIsSortedInput
        /\ ReturnedFromFilled
        /\ \A i \in 1 .. Len(Filled.rows) : \A c \in Pollutants :
              IF Before(i, c) # <<>> THEN Filled.rows[i][c] = Before(i, c)
              ELSE IF EarlierReadings(i, c) = {} THEN Filled.rows[i][c] = <<>>
              ELSE IF GapLength(i, c) <= 3
                   THEN Filled.rows[i][c] = Before(Latest(EarlierReadings(i, c)), c)
                   ELSE Filled.rows[i][c] = <<>>

\* a city has four rows in a row without pm2_5 after a reading: the third
\* was filled with it, the fourth was left null
C7_Witness ==
    /\ Returned
    /\ \E i, j \in 1 .. Len(Filled.rows) :
          /\ Filled.rows[i]["city_key"] = Filled.rows[j]["city_key"]
          /\ Before(i, "pm2_5") = <<>> /\ Before(j, "pm2_5") = <<>>
          /\ EarlierReadings(i, "pm2_5") # {}
          /\ EarlierReadings(j, "pm2_5") # {}
          /\ GapLength(i, "pm2_5") = 3 /\ GapLength(j, "pm2_5") = 4
          /\ Filled.rows[i]["pm2_5"] # <<>>
          /\ Filled.rows[j]["pm2_5"] = <<>>

\* C8: a value written into a null cell of a row is the reading of the same
\* pollutant in an earlier row (by timestamp) of the same city_key.
C8_FillStaysInCity ==
    Returned =>
        /\ ReturnedFromFilled
        /\ \A i \in 1 .. Len(Filled.rows) : \A c \in Pollutants :
              (Before(i, c) = <<>> /\ Filled.rows[i][c] # <<>>) =>
                  \E j \in 1 .. i - 1 :
                      /\ Filled.rows[j]["city_key"] = Filled.rows[i]["city_key"]
                      /\ Before(j, c) = Filled.rows[i][c]

\* the rows of two cities interleave: a row without pm2_5 right after another
\* city's reading stayed null, and a later row was filled from its own city
C8_Witness ==
    /\ Returned
    /\ \E i, j, k \in 1 .. Len(Filled.rows) :
          /\ i < j /\ j < k
          /\ Filled.rows[i]["city_key"] = Filled.rows[k]["city_key"]
          /\ Filled.rows[i]["city_key"] # Filled.rows[j]["city_key"]
          /\ Before(i, "pm2_5") # <<>>
          /\ Before(j, "pm2_5") = <<>> /\ Filled.rows[j]["pm2_5"] = <<>>
          /\ Before(k, "pm2_5") = <<>> /\ Filled.rows[k]["pm2_5"] = Before(i, "pm2_5")

----------------------------------------------------------------------------
(* Properties of detect_outliers, checked under SpecOutliers *)

C12_UnknownMethodRaises ==
    (pc # "call" /\ method \notin {"iqr", "zscore"}) =>
        /\ pc = "raised"
        /\ error = "ConfigurationError"
        /\ result = "none"

----------------------------------------------------------------------------
(* Properties of validate_schema, checked under SpecSchema *)

\* the positions of the returned error list that carry the message m
ErrorsSaying(m) == {k \in DOMAIN ret[2] : ret[2][k].msg = m}

\* C13: validate_schema reports every problem and changes nothing. The error
\* list holds the missing-columns message exactly when a required column is
\* absent, and that message names every absent required column; it holds the
\* empty-table message exactly when the table has no rows; both when both
\* hold; is_valid is true exactly when the list is empty; the table is left
\* as it was.
C13_SchemaErrorsComplete ==
    pc = "returned" =>
        /\ heap[Arg] = input0
        /\ DOMAIN heap = {Arg}
        /\ error = "none"
        /\ Cardinality(ErrorsSaying("Missing required columns")) =
              (IF required_columns \subseteq input0.columns THEN 0 ELSE 1)
        /\ \A k \in ErrorsSaying("Missing required columns") :
              ret[2][k].cols = required_columns \ input0.columns
        /\ Cardinality(ErrorsSaying("DataFrame is empty")) =
              (IF Len(input0.rows) = 0 THEN 1 ELSE 0)
        /\ Len(ret[2]) = Cardinality(ErrorsSaying("Missing required columns"))
                         + Cardinality(ErrorsSaying("DataFrame is empty"))
        /\ ret[1] = (Len(ret[2]) = 0)

\* reached: a table with no rows and without two required columns was
\* validated, and both messages came back
C13_Witness ==
    /\ pc = "returned"
    /\ Len(input0.rows) = 0
    /\ required_columns \ input0.columns = {"timestamp", "co"}
    /\ Len(ret[2]) = 2
    /\ ret[1] = FALSE

----------------------------------------------------------------------------
(* Properties of add_derived_features, checked under SpecFeatures *)

\* the inputs that have every column the function reads
FeaturesInput == {"timestamp", "aqi", "pm2_5", "pm10"} \subseteq input0.columns

\* the label of an aqi value as the documentation gives it
AqiLabel(a) ==
    CASE a = <<1>> -> <<"Good">>
      [] a = <<2>> -> <<"Fair">>
      [] a = <<3>> -> <<"Moderate">>
      [] a = <<4>> -> <<"Poor">>
      [] a = <<5>> -> <<"Very Poor">>
      [] OTHER     -> <<>>

\* C14: in the returned table aqi_category is Good, Fair, Moderate, Poor,
\* Very Poor for aqi 1, 2, 3, 4, 5 and null for any other aqi (a null one
\* included); such a value does not make the call raise.
C14_AqiCategory ==
    (pc # "call" /\ FeaturesInput) =>
        /\ pc = "returned"
        /\ error = "none"
        /\ DOMAIN heap[result].rows = DOMAIN input0.rows
        /\ \A i \in DOMAIN input0.rows :
              heap[result].rows[i]["aqi_category"] = AqiLabel(input0.rows[i]["aqi"])

\* reached: a returned table with a labelled row and a row whose aqi (0 or
\* 6) has no label
C14_Witness ==
    /\ pc = "returned"
    /\ \E i, j \in DOMAIN input0.rows :
          /\ input0.rows[i]["aqi"] \in {<<0>>, <<6>>}
          /\ heap[result].rows[i]["aqi_category"] = <<>>
          /\ heap[result].rows[j]["aqi_category"] = <<"Very Poor">>

\* C15: in the returned table pm_total is pm2_5 + pm10 in the rows where
\* both are non-null, and null in every other row.
C15_PmTotal ==
    pc = "returned" =>
        \A i \in DOMAIN input0.rows :
            LET a == input0.rows[i]["pm2_5"]
                b == input0.rows[i]["pm10"]
            IN heap[result].rows[i]["pm_total"] =
                 (IF a # <<>> /\ b # <<>> THEN <<a[1] + b[1]>> ELSE <<>>)

\* reached: a returned table with a summed row and a row with one reading
\* missing
C15_Witness ==
    /\ pc = "returned"
    /\ \E i, j \in DOMAIN input0.rows :
          /\ heap[result].rows[i]["pm_total"] = <<70>>
          /\ input0.rows[j]["pm2_5"] = <<>>
          /\ input0.rows[j]["pm10"] # <<>>
          /\ heap[result].rows[j]["pm_total"] = <<>>

\* C16 (as claimed): the call leaves the table object the caller passed as
\* it was: no column added to it, its timestamp column not rewritten.
C16_ArgumentUnchanged == pc = "returned" => heap[Arg] = input0

----------------------------------------------------------------------------
(* Properties of generate_quality_report, checked under SpecReport *)

\* C17 (as claimed): the report of a table with no rows has total_records 0,
\* completeness 0 and 0 as the missing percentage of every column, and the
\* call does not raise.
C17_EmptyTableReport ==
    (pc # "call" /\ Len(input0.rows) = 0) =>
        /\ pc = "returned"
        /\ error = "none"
        /\ ret.total_records = 0
        /\ ret.completeness # <<>>
        /\ ret.completeness[1].sum = 0
        /\ \A c \in input0.columns : ret.missing_percentage[c] = <<0>>

----------------------------------------------------------------------------
(* Properties of the loaders, checked under SpecLoad *)

\* the load_all_raw_data call has returned
Combined == pc = "returned" /\ result = "combined_df"

\* the rows of the files that parse, in file order then row order, as
\* <<file, row>> positions
RECURSIVE StoredRows(_)
StoredRows(k) ==
    IF k > Len(raw_dir) THEN <<>>
    ELSE (IF raw_dir[k].ok
          THEN [i \in 1 .. Len(raw_dir[k].df.rows) |-> <<k, i>>] ELSE <<>>)
         \o StoredRows(k + 1)

\* the cell of a stored row: NaN in a column its file does not have
StoredCell(p, c) ==
    IF c \in raw_dir[p[1]].df.columns THEN raw_dir[p[1]].df.rows[p[2]][c] ELSE <<>>

StoredKey(p) == <<StoredCell(p, "timestamp"), StoredCell(p, "city_key")>>

\* the stored rows that are the first with their (timestamp, city_key)
FirstOccurrences ==
    LET all == StoredRows(1)
    IN SelectSeq([n \in DOMAIN all |-> <<n, all[n]>>],
                 LAMBDA x : \A m \in 1 .. (x[1] - 1) :
                               StoredKey(all[m]) # StoredKey(x[2]))

\* C18: the table load_all_raw_data returns has no two rows with the same
\* (timestamp, city_key); its rows are, in order, the first occurrences of
\* the pairs of the parsed files (file order, then row order), each with
\* the cell values that stored row has.
C18_FirstOccurrenceWins ==
    Combined =>
        LET out   == heap[result]
            first == FirstOccurrences
        IN /\ \A i, j \in DOMAIN out.rows :
                 (out.rows[i]["timestamp"] = out.rows[j]["timestamp"]
                  /\ out.rows[i]["city_key"] = out.rows[j]["city_key"]) => i = j
           /\ Len(out.rows) = Len(first)
           /\ \A n \in DOMAIN first :
                 \A c \in out.columns : out.rows[n][c] = StoredCell(first[n][2], c)

\* reached: two files that parse and one that does not; a pair of the first
\* file is repeated in a later file with another reading, and the returned
\* table holds fewer rows than were stored
C18_Witness ==
    /\ Combined
    /\ \E k \in DOMAIN raw_dir : ~raw_dir[k].ok
    /\ \E m, n \in DOMAIN StoredRows(1) :
          /\ StoredRows(1)[m][1] < StoredRows(1)[n][1]
          /\ StoredKey(StoredRows(1)[m]) = StoredKey(StoredRows(1)[n])
          /\ StoredCell(StoredRows(1)[m], "pm2_5") # StoredCell(StoredRows(1)[n], "pm2_5")
    /\ 0 < Len(heap[result].rows)
    /\ Len(heap[result].rows) < Len(StoredRows(1))

\* the directory holds two copies of one batch B that parses, B was loaded
\* once with load_raw_data and then the two copies were combined
TwoCopiesLoaded ==
    /\ Combined
    /\ Len(raw_dir) = 2
    /\ raw_dir[1].ok
    /\ raw_dir[1] = raw_dir[2]
    /\ "pd.read_csv()" \in DOMAIN heap
    /\ ret = <<1>>

\* the (timestamp, city_key) pairs of the first file
PairsOfB ==
    {<<raw_dir[1].df.rows[i]["timestamp"], raw_dir[1].df.rows[i]["city_key"]>> :
        i \in DOMAIN raw_dir[1].df.rows}

\* C19 (as claimed): combining two stored copies of a batch B gives as many
\* rows as load_raw_data gives for B, whatever B holds.
C19_SameCountAsSingleLoad ==
    TwoCopiesLoaded => Len(heap["combined_df"].rows) = Len(heap["pd.read_csv()"].rows)

\* C19 (amended): combining two stored copies of B gives one row per
\* distinct (timestamp, city_key) pair of B; that is the row count of
\* load_raw_data for B exactly when no pair is repeated inside B, and less
\* otherwise (load_raw_data does not deduplicate).
C19_CountOfDistinctPairs ==
    TwoCopiesLoaded =>
        /\ heap["pd.read_csv()"] = raw_dir[1].df
        /\ Len(heap["combined_df"].rows) = Cardinality(PairsOfB)
        /\ Len(heap["combined_df"].rows) <= Len(heap["pd.read_csv()"].rows)
        /\ (Len(heap["combined_df"].rows) = Len(heap["pd.read_csv()"].rows))
              <=> (Cardinality(PairsOfB) = Len(raw_dir[1].df.rows))

\* reached: B holds three rows, two of them with the same pair; the single
\* load has three rows and the combination of the two copies has two
C19_Witness ==
    /\ TwoCopiesLoaded
    /\ Len(heap["pd.read_csv()"].rows) = 3
    /\ Len(heap["combined_df"].rows) = 2

----------------------------------------------------------------------------
(* Properties of fetch_city_data, checked under SpecFetchFair *)

\* the HTTP requests and the sleeps of the call so far
HttpRequests == {i \in DOMAIN events : events[i] \notin {"sleep", "budget"}}

Sleeps == {i \in DOMAIN events : events[i] = "sleep"}

\* the call is over
FetchDone == pc \in {"returned", "raised"}

\* every request of the call failed with a timeout or a request failure
AllTransient == \A i \in HttpRequests : events[i] \in Transient

\* a step in which request number attempt + 1 fails transiently
TransientFailure ==
    /\ pc = "try"
    /\ Len(events') = Len(events) + 1
    /\ events'[Len(events')] \in Transient

\* what holds in every state of a call with retry_attempts >= 1
C20_Counts ==
    max_retries >= 1 =>
        /\ Cardinality(HttpRequests) <= max_retries
        /\ Cardinality(Sleeps) <= max_retries - 1
        /\ (pc = "raised" /\ AllTransient /\ Cardinality(HttpRequests) = max_retries) =>
              /\ error = "APIError"
              /\ Cardinality(Sleeps) = max_retries - 1
        /\ (FetchDone /\ AllTransient /\ events # <<>>
               /\ events[Len(events)] # "budget") =>
              /\ pc = "raised" /\ error = "APIError"
              /\ Cardinality(HttpRequests) = max_retries
        /\ pc = "returned" =>
              /\ events[Len(events)] = "ok"
              /\ error = "none"
              /\ Cardinality(HttpRequests) = attempt + 1
              /\ \A i \in HttpRequests : i < Len(events) => events[i] \in Transient
        /\ (events # <<>> /\ events[Len(events)] = "ok") => pc = "returned"

\* what holds of every step: a transient failure of an attempt that is not
\* the last is followed by the sleep, the sleep by the next attempt; the
\* last attempt's failure raises APIError
C20_Steps ==
    /\ (TransientFailure /\ attempt + 1 < max_retries) => pc' = "sleep"
    /\ (TransientFailure /\ attempt + 1 >= max_retries) =>
          (pc' = "raised" /\ error' = "APIError")
    /\ pc = "sleep" =>
          /\ events' = Append(events, "sleep")
          /\ attempt' = attempt + 1
          /\ pc' = "try"
    /\ pc' = "sleep" => TransientFailure

\* C20: with retry_attempts = N >= 1, a timeout or request failure on
\* attempt k < N is followed by one sleep and by attempt k + 1 (which begins
\* with the rate limit check); when all N requests fail that way the call
\* raises APIError after exactly N requests and N - 1 sleeps; when attempt k
\* succeeds and validates the call returns after exactly k requests; a call
\* never issues more than N requests, and it always comes to an end.
C20_RetrySchedule ==
    /\ []C20_Counts
    /\ [][max_retries >= 1 => C20_Steps]_vars
    /\ <>FetchDone

\* reached: with three attempts configured, a timeout, an HTTP error and a
\* connection error, two sleeps between them, and APIError at the end
C20_Witness ==
    /\ max_retries = 3
    /\ events = <<"timeout", "sleep", "http_error", "sleep", "connection_error">>
    /\ pc = "raised"
    /\ error = "APIError"

----------------------------------------------------------------------------
(* Further properties of fetch_city_data, checked under SpecFetch *)

\* C21: an attempt that starts with api_calls_today >= max_calls_per_day
\* raises APIError at once: no HTTP request, no sleep, no further attempt,
\* and the counter as it was; nothing follows the raise.
C21_BudgetStops ==
    [][/\ (pc = "try" /\ api_calls_today >= max_calls_per_day) =>
             /\ pc' = "raised"
             /\ error' = "APIError"
             /\ api_calls_today' = api_calls_today
             /\ uncounted' = uncounted
             /\ attempt' = attempt
             /\ HttpRequests' = HttpRequests
             /\ Sleeps' = Sleeps
        /\ pc # "raised"]_vars

\* reached: the counter stood one below the limit, the first attempt got an
\* HTTP error (counted), and after the sleep the second attempt was refused
C21_Witness ==
    /\ events = <<"http_error", "sleep", "budget">>
    /\ api_calls_today = max_calls_per_day
    /\ pc = "raised"
    /\ error = "APIError"

\* C22 (as claimed): a response whose payload has no reading list, an empty
\* one, or any reading without main or components ends the call with
\* APIError and is the call's last request; so a payload that is returned
\* has main and components in every reading.
C22_InvalidPayloadRaises ==
    /\ (events # <<>> /\ events[Len(events)] = "ok") =>
          \A k \in DOMAIN ret.list : ret.list[k].main /\ ret.list[k].components
    /\ \A i \in DOMAIN events : events[i] = "invalid" =>
          (i = Len(events) /\ pc = "raised" /\ error = "APIError")

\* C29 (as claimed): a call for a configured city ends either by raising
\* APIError or by returning a validated payload tagged with the city_key
\* asked for, whatever retry_attempts is.
C29_PayloadOrAPIError ==
    (FetchDone /\ city_key \in Cities) =>
        \/ pc = "raised" /\ error = "APIError"
        \/ /\ pc = "returned"
           /\ events # <<>>
           /\ events[Len(events)] = "ok"
           /\ ret.list # <<>>
           /\ ret.list[1].main
           /\ ret.list[1].components
           /\ ret.city_key = city_key

----------------------------------------------------------------------------
(* Properties of fetch_all_cities, checked under SpecAll *)

\* the city keys of a list of records
city_keys(records) == [i \in DOMAIN records |-> records[i].city_key]

\* q is p with some elements left out, the order kept
RECURSIVE is_subsequence(_, _)
is_subsequence(q, p) ==
    IF q = <<>> THEN TRUE
    ELSE IF p = <<>> THEN FALSE
    ELSE IF Head(q) = Head(p) THEN is_subsequence(Tail(q), Tail(p))
    ELSE is_subsequence(q, Tail(p))

\* the fetch of the current city has returned a payload that parses
CitySucceeded ==
    /\ pc = "returned"
    /\ events # <<>>
    /\ events[Len(events)] = "ok"
    /\ ret.list[1].dt

\* the batch is over
AllDone == pc \in {"all_returned", "stats_returned"}

\* C23 (state part): when fetch_all_cities returns, every configured city
\* was visited once, in order; the list holds at most one record per city,
\* in configured order, and is empty when no fetch succeeded.
C23_Returned ==
    /\ is_subsequence(visited, configured_cities)
    /\ is_subsequence(city_keys(all_data), visited)
    /\ AllDone =>
          /\ visited = configured_cities
          /\ Len(all_data) <= Len(configured_cities)
          /\ (\A i \in DOMAIN events : events[i] # "ok") => all_data = <<>>

\* C23 (step part): whatever the outcome of a city, the loop goes on to the
\* next city; the city's record is appended exactly when its fetch
\* succeeded and its payload parsed, and the list is otherwise left alone.
C23_Step ==
    (pc \in {"returned", "raised"}) =>
        /\ pc' = "all_next"
        /\ cities_todo' = cities_todo
        /\ IF CitySucceeded
           THEN /\ Len(all_data') = Len(all_data) + 1
                /\ SubSeq(all_data', 1, Len(all_data)) = all_data
                /\ all_data'[Len(all_data')].city_key = city_key
           ELSE all_data' = all_data

\* C23: fetch_all_cities visits every configured city once in order,
\* survives every failure of a city, and returns one record per city that
\* succeeded, in order.
C23_EveryCityVisited == [](C23_Returned) /\ [][C23_Step]_vars

\* reached: the first city failed, the second succeeded, the batch returned
C23_Witness ==
    /\ pc = "all_returned"
    /\ visited = configured_cities
    /\ city_keys(all_data) = <<"new_york">>

\* C25: get_api_call_stats reports calls_made_today + remaining_calls =
\* max_calls_per_day with 0 <= calls_made_today <= max_calls_per_day, at
\* every point of a batch and in the dictionary returned after it; once a
\* fetch has succeeded, calls_made_today > 0 and remaining_calls <
\* max_calls_per_day.
C25_StatsAddUp ==
    LET stats == IF pc = "stats_returned" THEN ret
                 ELSE get_api_call_stats(api_calls_today)
    IN  /\ stats.calls_made_today = api_calls_today
        /\ stats.calls_made_today + stats.remaining_calls = max_calls_per_day
        /\ 0 <= stats.calls_made_today
        /\ stats.calls_made_today <= max_calls_per_day
        /\ stats.remaining_calls >= 0
        /\ (\E i \in DOMAIN events : events[i] = "ok") =>
              /\ stats.calls_made_today > 0
              /\ stats.remaining_calls < max_calls_per_day

\* reached: the statistics were read after a batch in which one city
\* succeeded with the last call of the day and the other was refused
C25_Witness ==
    /\ pc = "stats_returned"
    /\ ret.remaining_calls = 0
    /\ Len(all_data) = 1
    /\ \E i \in DOMAIN events : events[i] = "budget"

\* an event that is an HTTP request
IsRequest(ev) == ev \notin {"sleep", "delay", "budget"}

\* C27 (as claimed): the requests of a batch are separated by a delay: no
\* request follows another without a sleep between them, also when the
\* earlier request ended a city in failure.
C27_DelayBetweenRequests ==
    \A i \in DOMAIN events :
        (i < Len(events) /\ IsRequest(events[i])) => ~IsRequest(events[i + 1])

\* C28 (as claimed): the requests issued by the collector, counted or not,
\* never exceed max_calls_per_day.
C28_RequestsWithinBudget ==
    api_calls_today + uncounted <= max_calls_per_day

----------------------------------------------------------------------------
(* Further properties of handle_missing_values, checked under SpecMissing *)

\* C26 (as claimed): the rows are put in ascending order of timestamp by a
\* stable sort: rows with equal timestamps keep the order of the input.
C26_SortIsStable ==
    Returned =>
        \A i, j \in 1 .. Len(Filled.rows) :
            i < j =>
                /\ Filled.rows[i]["timestamp"][1].t <= Filled.rows[j]["timestamp"][1].t
                /\ Filled.rows[i]["timestamp"][1].t = Filled.rows[j]["timestamp"][1].t
                      => Filled.index[i] < Filled.index[j]

----------------------------------------------------------------------------
(* Further properties of clean_data, checked under Spec *)

\* the positions of the input rows whose aqi is present and within its bound
KeptRows ==
    {i \in 1 .. Len(input0.rows) :
        LET cell == input0.rows[i]["aqi"]
        IN cell # <<>> /\ ranges["aqi"][1] <= cell[1] /\ cell[1] <= ranges["aqi"][2]}

----------------------------------------------------------------------------
(* Properties of collect_data.main, checked under SpecMain *)

\* loading or cleaning has raised in this run
LoadOrCleanRaised == error \in {"ParserError", "FileNotFoundError", "DataQualityError",
                                "TypeError", "KeyError"}

\* C24 (state part): when loading or cleaning has raised, no processed file
\* has been written, the raw file of this run is stored after the earlier
\* ones, which are as they were, and main exits with status 1.
C24_FailureLeavesNoProcessedFile ==
    (stages # <<>> \/ pc \in {"validate_schema", "exited"}) =>
        /\ LoadOrCleanRaised =>
              /\ processed_dir \in {<<>>, <<earlier_processed_file>>}
              /\ raw_dir \in {<<to_csv(DataFrame(all_data))>>,
                              <<earlier_raw_file, to_csv(DataFrame(all_data))>>}
              /\ Len(raw_dir) = Len(processed_dir) + 1
              /\ pc \in {"raised", "exited"}
              /\ pc = "exited" => exit_code = 1
        /\ (pc = "exited" /\ exit_code = 0) =>
              (error = "none" /\ Len(processed_dir) = Len(raw_dir))

\* C24 (step part): a stored file is never changed or removed, and the
\* processed directory gains a file only in the step that follows the
\* return of clean_data, the file being the table it returned.
C24_Step ==
    /\ IsPrefix(raw_dir, raw_dir')
    /\ IsPrefix(processed_dir, processed_dir')
    /\ processed_dir' # processed_dir =>
          /\ pc = "returned"
          /\ stages = StageOrder
          /\ error = "none"
          /\ processed_dir' = Append(processed_dir, to_csv(heap[result]))

\* C24: main writes the processed dataset only after clean_data returned; if
\* loading or cleaning raises, no processed file is written, the raw file of
\* the run is kept, earlier files are untouched and the exit code is 1.
C24_ProcessedOnlyAfterClean ==
    [](C24_FailureLeavesNoProcessedFile) /\ [][C24_Step]_vars

\* reached: clean_data raised on the file just saved, main exited with 1,
\* the raw directory holds the earlier file and the new one, the processed
\* directory only the earlier one
C24_Witness ==
    /\ pc = "exited"
    /\ error = "TypeError"
    /\ exit_code = 1
    /\ Len(raw_dir) = 2
    /\ raw_dir[1] = earlier_raw_file
    /\ processed_dir = <<earlier_processed_file>>

=========================================================================
